---- MODULE Spec2Model ----
(***************************************************************************)
(* A model of exif_analyzer.py: the record parser (parse_exif_output),     *)
(* the lens canonicalizer and the statistics aggregator                    *)
(* (generate_statistics) and the ranked tables of display_statistics.      *)
(*                                                                         *)
(* Text is modelled as a sequence of tokens.  A token is one character     *)
(* ("4", ".", " ", "/") or a run of letters the code only ever treats as a *)
(* whole ("mm", "Auto", "nan").  An optional value (Python's None or a     *)
(* value) is a tuple of length 0 or 1: None is <<>>, the value v is <<v>>. *)
(***************************************************************************)
EXTENDS Integers, Sequences, FiniteSets, TLC

VARIABLES
    lines,      \* parse_exif_output: the dump, after split('\n') and the key/value split
    i,          \* parse_exif_output: index of the line the for loop reads next
    data,       \* parse_exif_output: the record under construction
    pc,         \* where the run stands
    results,    \* generate_statistics: the batch of records
    lens_canonical_map,  \* generate_statistics: normalized lens key -> canonical label
    stats,      \* generate_statistics: the statistics bundle
    shown,      \* display_statistics: the ranked tables, as far as they were printed
    disk,       \* the directory main is pointed at, and what ExifTool gives for its files
    args,       \* main: show_details, show_stats and num_workers
    raw_files,  \* load_raw_files: the paths to process
    workers,    \* load_raw_files: num_workers once it is determined
    file_no,    \* load_raw_files: index of the file the sequential loop processes next
    pool        \* load_raw_files: the tasks of pool.map, in the order of raw_files

vars == <<lines, i, data, pc, results, lens_canonical_map, stats, shown,
          disk, args, raw_files, workers, file_no, pool>>

\* the state of parse_exif_output, of the statistics and of the batch run
parse_vars == <<lines, i, data>>
stats_vars == <<lens_canonical_map, stats, shown>>
load_vars == <<disk, args, raw_files, workers, file_no, pool>>

(***************************************************************************)
(* Bounds of the model.                                                    *)
(***************************************************************************)
\* longest dump of one field family, in lines
MaxLines == 3
\* longest dump that mixes the field families, in lines
MaxMixed == 2

(***************************************************************************)
(* Optional values and Python truthiness.                                  *)
(***************************************************************************)
None == <<>>
Some(v) == <<v>>

\* `if data['camera']` on None or a string: None and '' are false
TruthyStr(x) == x # None /\ x[1] # <<>>
\* `if data['iso']` on None or an int: None and 0 are false
TruthyInt(x) == x # None /\ x[1] # 0

(***************************************************************************)
(* Sequences.                                                              *)
(***************************************************************************)
SeqsUpTo(S, n) == UNION {[1..k -> S] : k \in 0..n}

\* the sequence written out, element by element
List(f) == f \o <<>>

Min(S) == CHOOSE x \in S : \A y \in S : x <= y
Max(S) == CHOOSE x \in S : \A y \in S : x >= y

RECURSIVE Pow10(_)
Pow10(k) == IF k = 0 THEN 1 ELSE 10 * Pow10(k - 1)

(***************************************************************************)
(* Character classes of the regular expressions.                           *)
(***************************************************************************)
Digits == {"0", "1", "2", "3", "4", "5", "6", "7", "8", "9"}

\* \d
IsDigit(c) == c \in Digits
\* [\d.]
IsNumChar(c) == c \in Digits \/ c = "."
\* \s
IsSpace(c) == c \in {" ", "\t"}
\* mm under re.IGNORECASE
IsMM(c) == c \in {"mm", "MM", "Mm", "mM"}

DigitVal(c) ==
    CASE c = "0" -> 0 [] c = "1" -> 1 [] c = "2" -> 2 [] c = "3" -> 3
      [] c = "4" -> 4 [] c = "5" -> 5 [] c = "6" -> 6 [] c = "7" -> 7
      [] c = "8" -> 8 [] c = "9" -> 9

DigitChar(d) ==
    CASE d = 0 -> "0" [] d = 1 -> "1" [] d = 2 -> "2" [] d = 3 -> "3"
      [] d = 4 -> "4" [] d = 5 -> "5" [] d = 6 -> "6" [] d = 7 -> "7"
      [] d = 8 -> "8" [] d = 9 -> "9"

\* int(s) of a run of digits
RECURSIVE DigitsToInt(_)
DigitsToInt(s) ==
    IF s = <<>> THEN 0
    ELSE 10 * DigitsToInt(SubSeq(s, 1, Len(s) - 1)) + DigitVal(s[Len(s)])

\* str(n) of a non-negative int
RECURSIVE IntToDigits(_)
IntToDigits(n) ==
    IF n < 10 THEN <<DigitChar(n)>>
    ELSE Append(IntToDigits(n \div 10), DigitChar(n % 10))

(***************************************************************************)
(* re.search(r'(\d+)', value) and re.search(r'([\d.]+)', value): the       *)
(* leftmost match, extended greedily.  <<>> stands for no match (a match   *)
(* of + is never empty).                                                   *)
(***************************************************************************)
\* membership of a character class, by the class's name
InClass(cls, c) == IF cls = "digit" THEN IsDigit(c) ELSE IsNumChar(c)

RECURSIVE RunFrom(_, _, _)
RunFrom(value, k, cls) ==
    IF k > Len(value) \/ ~InClass(cls, value[k]) THEN <<>>
    ELSE <<value[k]>> \o RunFrom(value, k + 1, cls)

RECURSIVE SearchFrom(_, _, _)
SearchFrom(value, k, cls) ==
    IF k > Len(value) THEN <<>>
    ELSE IF InClass(cls, value[k]) THEN RunFrom(value, k, cls)
    ELSE SearchFrom(value, k + 1, cls)

SearchDigits(value) == SearchFrom(value, 1, "digit")
SearchNumber(value) == SearchFrom(value, 1, "num")

(***************************************************************************)
(* re.search(r'([\d.]+)\s*mm', value, re.IGNORECASE): group 1 of the       *)
(* leftmost match, the group as long as backtracking allows.               *)
(***************************************************************************)
\* the positions j such that value[a..j] is [\d.]+ and \s*mm follows
FocalEnds(value, a) ==
    {j \in a..Len(value) :
        /\ \A k \in a..j : IsNumChar(value[k])
        /\ \E m \in (j + 1)..Len(value) :
              /\ IsMM(value[m])
              /\ \A k \in (j + 1)..(m - 1) : IsSpace(value[k])}

SearchFocal(value) ==
    LET starts == {a \in 1..Len(value) : FocalEnds(value, a) # {}}
    IN  IF starts = {} THEN <<>>
        ELSE LET a == Min(starts)
             IN  SubSeq(value, a, Max(FocalEnds(value, a)))

(***************************************************************************)
(* float(s) for s made of digits and dots: a ValueError unless s holds at  *)
(* most one dot and at least one digit.  The value is Mantissa / 10^Scale. *)
(***************************************************************************)
DotCount(s) == Cardinality({k \in 1..Len(s) : s[k] = "."})
DigitCount(s) == Cardinality({k \in 1..Len(s) : IsDigit(s[k])})

FloatRaises(s) == DotCount(s) > 1 \/ DigitCount(s) = 0

Mantissa(s) == DigitsToInt(SelectSeq(s, IsDigit))
Scale(s) ==
    IF DotCount(s) = 0 THEN 0
    ELSE Len(s) - (CHOOSE k \in 1..Len(s) : s[k] = ".")

\* lines 216-219: f"{int(v)}mm" for a whole v, else f"{v:.1f}mm".  The round
\* to one decimal is exact for every value that is not a decimal tie.
FormatFocal(s) ==
    LET n == Mantissa(s)
        p == Pow10(Scale(s))
    IN  IF n % p = 0 THEN IntToDigits(n \div p) \o <<"mm">>
        ELSE LET tenths == (n * 10 + p \div 2) \div p
             IN  IntToDigits(tenths \div 10) \o <<".", DigitChar(tenths % 10), "mm">>

(***************************************************************************)
(* parse_exif_output, one field at a time: the value of the field after a  *)
(* line with this key and value, given its value before.                   *)
(***************************************************************************)
\* a mutant of Camera: 'Camera Model Name' takes precedence over an earlier value
CameraModelNameOverrides(cur, key, value) ==
    IF key = "Camera Model Name" THEN Some(value)
    ELSE IF ~TruthyStr(cur) /\ key = "Camera Type 2" THEN Some(value)
    ELSE cur

Camera(cur, key, value) ==
    IF ~TruthyStr(cur) /\ key \in {"Camera Model Name", "Camera Type 2"}
    THEN Some(value) ELSE cur

LensHighKeys == {"RF Lens Type", "Lens ID"}
LensLowKeys == {"Lens Type", "Lens Model", "Lens Info"}

\* a mutant of Lens: the high-tier keys fill the lens only while it is unset
LensHighFillsOnly(cur, key, value) ==
    IF key \in LensHighKeys \cup LensLowKeys /\ ~TruthyStr(cur) THEN Some(value)
    ELSE cur

\* a mutant of Lens: the low-tier keys overwrite the lens as the high-tier keys do
LensLowOverwrites(cur, key, value) ==
    IF key \in LensHighKeys \cup LensLowKeys THEN Some(value)
    ELSE cur

Lens(cur, key, value) ==
    IF key \in LensHighKeys THEN Some(value)
    ELSE IF key \in LensLowKeys /\ ~TruthyStr(cur) THEN Some(value)
    ELSE cur

\* a mutant of Iso: 'Camera ISO' is read whether or not its value contains 'Auto'
IsoIgnoresAuto(cur, key, value) ==
    IF TruthyInt(cur) THEN cur
    ELSE IF key = "ISO" \/ key = "Camera ISO"
    THEN IF SearchDigits(value) # <<>> THEN Some(DigitsToInt(SearchDigits(value))) ELSE cur
    ELSE cur

Iso(cur, key, value) ==
    IF TruthyInt(cur) THEN cur
    ELSE IF key = "ISO" \/ (key = "Camera ISO" /\ \A k \in 1..Len(value) : value[k] # "Auto")
    THEN IF SearchDigits(value) # <<>> THEN Some(DigitsToInt(SearchDigits(value))) ELSE cur
    ELSE cur

\* a mutant of Speed: the last shutter-speed line wins
SpeedLastWins(cur, key, value) ==
    IF key \in {"Shutter Speed", "Exposure Time", "Shutter Speed Value"}
    THEN Some(value) ELSE cur

Speed(cur, key, value) ==
    IF ~TruthyStr(cur) /\ key \in {"Shutter Speed", "Exposure Time", "Shutter Speed Value"}
    THEN Some(value) ELSE cur

Aperture(cur, key, value) ==
    IF ~TruthyStr(cur) /\ key \in {"Aperture", "F Number", "Aperture Value"}
       /\ SearchNumber(value) # <<>>
    THEN Some(<<"f/">> \o SearchNumber(value)) ELSE cur

\* line 214: float(focal_match.group(1)) raises ValueError
FocalRaises(cur, key, value) ==
    /\ ~TruthyStr(cur)
    /\ key = "Focal Length"
    /\ SearchFocal(value) # <<>>
    /\ FloatRaises(SearchFocal(value))

FocalLength(cur, key, value) ==
    IF ~TruthyStr(cur) /\ key = "Focal Length" /\ SearchFocal(value) # <<>>
    THEN Some(FormatFocal(SearchFocal(value))) ELSE cur

(***************************************************************************)
(* The dumps.  A line is what lines 128-140 make of it: blank, without a   *)
(* colon (both skipped), or a key and a value, both stripped.              *)
(***************************************************************************)
KV(key, value) == [text |-> "kv", key |-> key, value |-> value]
Blank == [text |-> "blank", key |-> "", value |-> <<>>]
NoColon == [text |-> "nocolon", key |-> "", value |-> <<>>]
OtherLine == KV("File Size", <<"2", "4", " ", "mm">>)

NameValues == {<<>>, <<"A">>, <<"B">>}

CameraLines == {KV(k, v) : k \in {"Camera Model Name", "Camera Type 2"}, v \in NameValues}
LensLines == {KV(k, v) : k \in LensHighKeys \cup LensLowKeys, v \in NameValues}
SpeedLines ==
    {KV(k, v) : k \in {"Shutter Speed", "Exposure Time", "Shutter Speed Value"},
                v \in {<<>>, <<"1", "/", "2", "5", "0">>, <<"2">>}}
IsoValues ==
    { <<"0">>, <<"4", "0", "0">>, <<"2", "0", "0">>, <<"AUTO", " ", "4", "0", "0">>,
      <<"Auto", " ", "4", "0", "0">>, <<"Auto">>, <<"x">>, <<"1", " ", "2">> }
IsoLines == {KV(k, v) : k \in {"ISO", "Camera ISO"}, v \in IsoValues}
ApertureValues ==
    { <<"4", ".", "0">>, <<"2", ".", "8", " ", "(", "9", "6", "%", ")">>,
      <<"1", ".", "2", ".", "3">>, <<".">>, <<"x">> }
ApertureLines == {KV(k, v) : k \in {"Aperture", "F Number", "Aperture Value"}, v \in ApertureValues}
FocalValues ==
    { <<"3", "7", " ", "mm">>, <<"1", "9", ".", "0", "0", " ", "mm">>,
      <<"4", ".", "5", "6", "mm">>, <<"9", ".", "9", "9", " ", "MM">>,
      <<"0", "0", "7", " ", " ", "mm">>, <<"1", ".", "2", ".", "3", " ", "mm">>,
      <<".", " ", "mm">>, <<"3", "7">>, <<"x", " ", "mm">>,
      <<"x", "1", ".", "5", " ", "mm", " ", "3", ".", "0", " ", "mm">> }
FocalLines == {KV("Focal Length", v) : v \in FocalValues}

Families ==
    { CameraLines, LensLines, SpeedLines, IsoLines, ApertureLines, FocalLines }

\* a few lines of every family, for the dumps that mix them
MixedLines ==
    { Blank, NoColon, OtherLine,
      KV("Camera Model Name", <<"A">>), KV("Camera Type 2", <<"B">>),
      KV("Lens ID", <<"B">>), KV("Lens Model", <<"A">>),
      KV("ISO", <<"4", "0", "0">>), KV("Camera ISO", <<"Auto">>),
      KV("Exposure Time", <<"2">>),
      KV("F Number", <<"4", ".", "0">>), KV("Aperture", <<"1", ".", "2", ".", "3">>),
      KV("Focal Length", <<"3", "7", " ", "mm">>),
      KV("Focal Length", <<"1", ".", "2", ".", "3", " ", "mm">>) }

Dumps ==
    UNION {SeqsUpTo(F \cup {OtherLine}, MaxLines) : F \in Families}
      \cup SeqsUpTo(MixedLines, MaxMixed)

(***************************************************************************)
(* dict, defaultdict and Counter: a sequence of <<key, value>> pairs in    *)
(* insertion order, which is the order Python iterates them in.            *)
(***************************************************************************)
Keys(d) == {d[k][1] : k \in 1..Len(d)}
Has(d, key) == \E k \in 1..Len(d) : d[k][1] = key
\* d[key] for a key that is present
Get(d, key) == d[CHOOSE k \in 1..Len(d) : d[k][1] = key][2]
\* d[key] = val
Put(d, key, val) ==
    IF Has(d, key)
    THEN List([k \in 1..Len(d) |-> IF d[k][1] = key THEN <<key, val>> ELSE d[k]])
    ELSE Append(d, <<key, val>>)
\* Counter()[key]: 0 for a missing key
Count(c, key) == IF Has(c, key) THEN Get(c, key) ELSE 0
\* c[key] += 1 on a Counter or a defaultdict(int)
Inc(c, key) == Put(c, key, Count(c, key) + 1)
\* dd[outer][inner] += 1 on a defaultdict(Counter)
IncIn(dd, outer, inner) ==
    Put(dd, outer, Inc(IF Has(dd, outer) THEN Get(dd, outer) ELSE <<>>, inner))

RECURSIVE Total(_)
\* the sum of a Counter's counts
Total(c) == IF c = <<>> THEN 0 ELSE c[1][2] + Total(Tail(c))

(***************************************************************************)
(* normalize_lens_name.                                                    *)
(***************************************************************************)
\* str.lower(), on the letters of the model
Lower(c) ==
    CASE c = "A" -> "a" [] c = "B" -> "b" [] c = "C" -> "c" [] OTHER -> c

RECURSIVE SkipSpaces(_)
SkipSpaces(s) ==
    IF s # <<>> /\ IsSpace(Head(s)) THEN SkipSpaces(Tail(s)) ELSE s

RECURSIVE CollapseSpaces(_)
\* re.sub(r'\s+', ' ', s)
CollapseSpaces(s) ==
    IF s = <<>> THEN <<>>
    ELSE IF IsSpace(Head(s)) THEN <<" ">> \o CollapseSpaces(SkipSpaces(s))
    ELSE <<Head(s)>> \o CollapseSpaces(Tail(s))

\* str.strip()
Strip(s) ==
    LET inner == {k \in 1..Len(s) : ~IsSpace(s[k])}
    IN  IF inner = {} THEN <<>> ELSE SubSeq(s, Min(inner), Max(inner))

normalize_lens_name(lens_name) ==
    IF lens_name = <<>> THEN <<>>
    ELSE Strip(CollapseSpaces(List([k \in 1..Len(lens_name) |-> Lower(lens_name[k])])))

(***************************************************************************)
(* generate_statistics.                                                    *)
(***************************************************************************)
RECURSIVE LensVariations(_, _)
\* lines 326-329, over the first n records: normalized -> {original: count}
LensVariations(rs, n) ==
    IF n = 0 THEN <<>>
    ELSE LET acc == LensVariations(rs, n - 1)
             d == rs[n]
         IN  IF TruthyStr(d.lens)
             THEN IncIn(acc, normalize_lens_name(d.lens[1]), d.lens[1])
             ELSE acc

\* a mutant of MostCommonVariation: among the most frequent, the last variant seen
LastMostCommonVariation(variations) ==
    variations[Max({k \in 1..Len(variations) :
                      \A j \in 1..Len(variations) : variations[j][2] <= variations[k][2]})][1]

\* line 334: max(variations.items(), key=lambda x: x[1])[0]; max keeps the
\* first of the items with the largest key
MostCommonVariation(variations) ==
    variations[Min({k \in 1..Len(variations) :
                      \A j \in 1..Len(variations) : variations[j][2] <= variations[k][2]})][1]

\* lines 332-335
LensCanonicalMap(lens_variations) ==
    List([k \in 1..Len(lens_variations) |->
            <<lens_variations[k][1], MostCommonVariation(lens_variations[k][2])>>])

\* a mutant of LensCountKey: the lens table is keyed by the raw lens string
RawLensKey(lens, canonical_map) == lens

\* lines 345-346: the key of the lens table
LensCountKey(lens, canonical_map) ==
    Get(canonical_map, normalize_lens_name(lens))

\* lines 363-364 and 373-374: the key of the per-lens tables
LensGroupKey(lens, canonical_map) ==
    Get(canonical_map, normalize_lens_name(lens))

\* lines 313-323
EmptyStats(total) ==
    [total_photos |-> total, cameras |-> <<>>, lenses |-> <<>>, iso_values |-> <<>>,
     shutter_speeds |-> <<>>, apertures_by_lens |-> <<>>, apertures |-> <<>>,
     focal_lengths_by_lens |-> <<>>, focal_lengths |-> <<>>]

\* lines 339-375: the body of the second loop, for the record d
CountRecord(st, d, canonical_map) ==
    [total_photos |-> st.total_photos,
     cameras |-> IF TruthyStr(d.camera) THEN Inc(st.cameras, d.camera[1]) ELSE st.cameras,
     lenses |->
        IF TruthyStr(d.lens)
        THEN Inc(st.lenses, LensCountKey(d.lens[1], canonical_map))
        ELSE st.lenses,
     iso_values |-> IF TruthyInt(d.iso) THEN Inc(st.iso_values, d.iso[1]) ELSE st.iso_values,
     shutter_speeds |->
        IF TruthyStr(d.speed) THEN Inc(st.shutter_speeds, d.speed[1]) ELSE st.shutter_speeds,
     apertures_by_lens |->
        IF TruthyStr(d.lens) /\ TruthyStr(d.aperture)
        THEN IncIn(st.apertures_by_lens, LensGroupKey(d.lens[1], canonical_map),
                   d.aperture[1])
        ELSE st.apertures_by_lens,
     apertures |->
        IF TruthyStr(d.aperture) THEN Inc(st.apertures, d.aperture[1]) ELSE st.apertures,
     focal_lengths_by_lens |->
        IF TruthyStr(d.lens) /\ TruthyStr(d.focal_length)
        THEN IncIn(st.focal_lengths_by_lens, LensGroupKey(d.lens[1], canonical_map),
                   d.focal_length[1])
        ELSE st.focal_lengths_by_lens,
     focal_lengths |->
        IF TruthyStr(d.focal_length) THEN Inc(st.focal_lengths, d.focal_length[1])
        ELSE st.focal_lengths]

RECURSIVE CountRecords(_, _, _)
\* lines 338-375, over the first n records
CountRecords(rs, n, canonical_map) ==
    IF n = 0 THEN EmptyStats(Len(rs))
    ELSE CountRecord(CountRecords(rs, n - 1, canonical_map), rs[n], canonical_map)

(***************************************************************************)
(* Python floats, as far as the sort keys need them: a non-negative        *)
(* rational n/d, +inf or NaN.                                              *)
(***************************************************************************)
Num(n, d) == [kind |-> "num", n |-> n, d |-> d]
Inf == [kind |-> "inf", n |-> 0, d |-> 1]
NaN == [kind |-> "nan", n |-> 0, d |-> 1]

\* x < y on floats: false whenever one of them is NaN
FloatLess(x, y) ==
    IF x.kind = "nan" \/ y.kind = "nan" THEN FALSE
    ELSE IF x.kind = "inf" THEN FALSE
    ELSE IF y.kind = "inf" THEN TRUE
    ELSE x.n * y.d < y.n * x.d

\* x == y on floats: false whenever one of them is NaN
FloatEq(x, y) ==
    IF x.kind = "nan" \/ y.kind = "nan" THEN FALSE
    ELSE IF x.kind = "inf" \/ y.kind = "inf" THEN x.kind = y.kind
    ELSE x.n * y.d = y.n * x.d

\* float(s) raises ValueError.  float strips white space, and reads 'nan'
\* and 'inf' besides the decimal numbers.
PyFloatRaises(s) ==
    LET t == Strip(s)
    IN  /\ t \notin {<<"nan">>, <<"inf">>}
        /\ \/ t = <<>>
           \/ \E k \in 1..Len(t) : ~IsNumChar(t[k])
           \/ FloatRaises(t)

\* float(s) when it does not raise
PyFloat(s) ==
    LET t == Strip(s)
    IN  IF t = <<"nan">> THEN NaN
        ELSE IF t = <<"inf">> THEN Inf
        ELSE Num(Mantissa(t), Pow10(Scale(t)))

\* x / y raises ZeroDivisionError
DivRaises(x, y) == y.kind = "num" /\ y.n = 0

\* x / y when it does not raise
Div(x, y) ==
    IF x.kind = "nan" \/ y.kind = "nan" THEN NaN
    ELSE IF x.kind = "inf" THEN (IF y.kind = "inf" THEN NaN ELSE Inf)
    ELSE IF y.kind = "inf" THEN Num(0, 1)
    ELSE Num(x.n * y.d, x.d * y.n)

(***************************************************************************)
(* The sort keys of display_statistics.                                    *)
(***************************************************************************)
SlashIdx(s) == {k \in 1..Len(s) : s[k] = "/"}

\* lines 477-489
sort_speed(speed_str) ==
    IF SlashIdx(speed_str) # {}
    THEN IF Cardinality(SlashIdx(speed_str)) # 1 THEN Inf
         ELSE LET at == CHOOSE k \in SlashIdx(speed_str) : TRUE
                  num == SubSeq(speed_str, 1, at - 1)
                  den == SubSeq(speed_str, at + 1, Len(speed_str))
              IN  IF PyFloatRaises(num) \/ PyFloatRaises(den) THEN Inf
                  ELSE IF DivRaises(PyFloat(num), PyFloat(den)) THEN Inf
                  ELSE Div(PyFloat(num), PyFloat(den))
    ELSE IF PyFloatRaises(speed_str) THEN Inf
    ELSE PyFloat(speed_str)

\* lines 425, 442-445, 509, 522-525: float(match.group(1)) raises ValueError
NumberKeyRaises(label) ==
    SearchNumber(label) # <<>> /\ FloatRaises(SearchNumber(label))

\* lines 425, 442-445, 509, 522-525: float(match.group(1)) if match else 0
NumberKey(label) ==
    IF SearchNumber(label) = <<>> THEN Num(0, 1)
    ELSE Num(Mantissa(SearchNumber(label)), Pow10(Scale(SearchNumber(label))))

(***************************************************************************)
(* sorted(items, key=...): list.sort on a list shorter than 64, which is   *)
(* one run found by count_run and extended by binary insertion.  It only   *)
(* ever asks whether one key is less than another.  A key is the tuple     *)
(* <<-count, float>>.  The result is the order of the items' indices.      *)
(***************************************************************************)
\* the < of tuples: the first position where the two differ decides
KeyLess(x, y) ==
    IF x[1] # y[1] THEN x[1] < y[1]
    ELSE IF FloatEq(x[2], y[2]) THEN FALSE
    ELSE FloatLess(x[2], y[2])

RECURSIVE ExtendRun(_, _, _)
\* count_run: the end of the run that starts keys[1], keys[2]
ExtendRun(keys, r, descending) ==
    IF r < Len(keys) /\ (KeyLess(keys[r + 1], keys[r]) = descending)
    THEN ExtendRun(keys, r + 1, descending)
    ELSE r

RECURSIVE BinarySearch(_, _, _, _, _)
\* binarysort: where the pivot goes among order[l..r-1]
BinarySearch(keys, order, pivot, l, r) ==
    IF l < r
    THEN LET m == l + (r - l) \div 2
         IN  IF KeyLess(keys[pivot], keys[order[m]])
             THEN BinarySearch(keys, order, pivot, l, m)
             ELSE BinarySearch(keys, order, pivot, m + 1, r)
    ELSE l

RECURSIVE BinarySort(_, _, _)
\* binarysort: order[1..start-1] is sorted, insert the rest
BinarySort(keys, order, start) ==
    IF start > Len(keys) THEN order
    ELSE LET at == BinarySearch(keys, order, order[start], 1, start)
             moved == List([k \in 1..Len(keys) |->
                              IF k < at THEN order[k]
                              ELSE IF k = at THEN order[start]
                              ELSE IF k <= start THEN order[k - 1]
                              ELSE order[k]])
         IN  BinarySort(keys, moved, start + 1)

ListSort(keys) ==
    IF Len(keys) < 2 THEN List([k \in 1..Len(keys) |-> k])
    ELSE LET descending == KeyLess(keys[2], keys[1])
             run == ExtendRun(keys, 2, descending)
             first == List([k \in 1..Len(keys) |->
                              IF descending /\ k <= run THEN run + 1 - k ELSE k])
         IN  BinarySort(keys, first, run + 1)

\* [:10]
TopN == 10
Top(rows) == SubSeq(rows, 1, IF Len(rows) < TopN THEN Len(rows) ELSE TopN)

(***************************************************************************)
(* The order of strings: sorted(stats['apertures_by_lens'].keys()).        *)
(***************************************************************************)
\* ord(c), on the characters of the model's lens names
Ord(c) ==
    CASE c = "\t" -> 9 [] c = " " -> 32 [] c = "A" -> 65 [] c = "B" -> 66
      [] c = "C" -> 67 [] c = "a" -> 97 [] c = "b" -> 98 [] c = "c" -> 99

RECURSIVE StrLess(_, _)
StrLess(s, t) ==
    IF t = <<>> THEN FALSE
    ELSE IF s = <<>> THEN TRUE
    ELSE IF Head(s) = Head(t) THEN StrLess(Tail(s), Tail(t))
    ELSE Ord(Head(s)) < Ord(Head(t))

\* the keys of a dict in ascending order (they are distinct)
SortedKeys(d) ==
    List([k \in 1..Len(d) |->
            CHOOSE key \in Keys(d) :
                Cardinality({other \in Keys(d) : StrLess(other, key)}) = k - 1])

(***************************************************************************)
(* display_statistics.  A printed row is the label, the count and the      *)
(* denominator of the percentage (count / denom) * 100.  A section is what *)
(* it prints and the exception that ends it, if any.                       *)
(***************************************************************************)
Row(item, denom) == [label |-> item[1], count |-> item[2], denom |-> denom]

\* the items of a Counter in the order of these keys, cut to ten, as rows
Ranked(counter, keys, denom) ==
    LET order == ListSort(List(keys))
    IN  Top(List([k \in 1..Len(counter) |-> Row(counter[order[k]], denom)]))

\* the exception of a table's for loop, if any: the division by a zero denominator
Printed(rows, denom) ==
    IF rows # <<>> /\ denom = 0
    THEN [raises |-> "ZeroDivisionError", rows |-> <<>>]
    ELSE [raises |-> "", rows |-> rows]

\* lines 398 and 408: most_common(10), the items by descending count, the
\* first seen first among equal counts
MostCommon(counter, denom) ==
    Printed(Ranked(counter, [k \in 1..Len(counter) |-> <<-counter[k][2], Num(0, 1)>>], denom),
            denom)

\* lines 423-429, 447-453, 507-513, 527-533: apertures and focal lengths, by
\* count and then by the number in the label
ByNumber(counter, denom) ==
    IF \E k \in 1..Len(counter) : NumberKeyRaises(counter[k][1])
    THEN [raises |-> "ValueError", rows |-> <<>>]
    ELSE Printed(Ranked(counter,
                        [k \in 1..Len(counter) |-> <<-counter[k][2], NumberKey(counter[k][1])>>],
                        denom),
                 denom)

\* lines 462-468: ISO values, by count and then by value
ByIso(counter, denom) ==
    Printed(Ranked(counter, [k \in 1..Len(counter) |-> <<-counter[k][2], Num(counter[k][1], 1)>>],
                   denom),
            denom)

\* lines 491-497: shutter speeds, by count and then by sort_speed
BySpeed(counter, denom) ==
    Printed(Ranked(counter,
                   [k \in 1..Len(counter) |-> <<-counter[k][2], sort_speed(counter[k][1])>>],
                   denom),
            denom)

\* lines 418-429 and 437-453: one table per lens, the lenses in sorted order;
\* the denominator of a lens's table is stats['lenses'][lens]
ByLens(by_lens, lenses) ==
    LET names == SortedKeys(by_lens)
        table(k) == ByNumber(Get(by_lens, names[k]), Count(lenses, names[k]))
        bad == {k \in 1..Len(names) : table(k).raises # ""}
        last == IF bad = {} THEN Len(names) ELSE Min(bad) - 1
    IN  [raises |-> IF bad = {} THEN "" ELSE table(Min(bad)).raises,
         rows |-> List([k \in 1..last |-> [lens |-> names[k], rows |-> table(k).rows]])]

\* the sections in the order display_statistics prints them
Sections(st) ==
    << MostCommon(st.cameras, st.total_photos),
       MostCommon(st.lenses, st.total_photos),
       ByLens(st.apertures_by_lens, st.lenses),
       ByLens(st.focal_lengths_by_lens, st.lenses),
       ByIso(st.iso_values, st.total_photos),
       BySpeed(st.shutter_speeds, st.total_photos),
       ByNumber(st.apertures, st.total_photos),
       ByNumber(st.focal_lengths, st.total_photos) >>

\* the first section that raises, 0 when none does
Raising(sections) ==
    LET bad == {k \in 1..Len(sections) : sections[k].raises # ""}
    IN  IF bad = {} THEN 0 ELSE Min(bad)

\* what section k has printed when display_statistics ends
PrintedBy(sections, k) ==
    IF Raising(sections) = 0 \/ k <= Raising(sections) THEN sections[k].rows ELSE <<>>

NothingShown ==
    [cameras |-> <<>>, lenses |-> <<>>, apertures_by_lens |-> <<>>,
     focal_lengths_by_lens |-> <<>>, iso_values |-> <<>>, shutter_speeds |-> <<>>,
     apertures |-> <<>>, focal_lengths |-> <<>>]

(***************************************************************************)
(* parse_exif_output as a state machine: one step per line of the loop.    *)
(***************************************************************************)
FileName == "a.cr3"

\* a run of parse_exif_output or of generate_statistics alone: no directory
\* and no arguments of main
NoDisk == [kind |-> "none", found |-> <<>>, exif |-> <<>>]
NoArgs == [show_details |-> FALSE, show_stats |-> TRUE, num_workers |-> None]

EmptyData ==
    [file_name |-> FileName, camera |-> None, lens |-> None, iso |-> None,
     speed |-> None, aperture |-> None, focal_length |-> None]

InitParse ==
    /\ lines \in Dumps
    /\ i = 1
    /\ data = EmptyData
    /\ pc = "scan"
    /\ results = <<>>
    /\ lens_canonical_map = <<>>
    /\ stats = EmptyStats(0)
    /\ shown = NothingShown
    /\ disk = NoDisk
    /\ args = NoArgs
    /\ raw_files = <<>>
    /\ workers = 0
    /\ file_no = 1
    /\ pool = <<>>

\* lines 126-219: one iteration of the loop
ParseLine ==
    /\ pc = "scan"
    /\ i <= Len(lines)
    /\ LET line == lines[i]
           key == line.key
           value == line.value
       IN  IF line.text # "kv"
           THEN /\ data' = data
                /\ pc' = pc
           ELSE IF FocalRaises(data.focal_length, key, value)
           THEN /\ data' = data
                /\ pc' = "raised"
           ELSE /\ data' = [file_name |-> data.file_name,
                            camera |-> Camera(data.camera, key, value),
                            lens |-> Lens(data.lens, key, value),
                            iso |-> Iso(data.iso, key, value),
                            speed |-> Speed(data.speed, key, value),
                            aperture |-> Aperture(data.aperture, key, value),
                            focal_length |-> FocalLength(data.focal_length, key, value)]
                /\ pc' = pc
    /\ i' = i + 1
    /\ UNCHANGED <<lines, results, lens_canonical_map, stats, shown, load_vars>>

\* line 221: return data
ReturnData ==
    /\ pc = "scan"
    /\ i > Len(lines)
    /\ pc' = "returned"
    /\ UNCHANGED <<lines, i, data, results, lens_canonical_map, stats, shown, load_vars>>

NextParse == ParseLine \/ ReturnData

SpecParse == InitParse /\ [][NextParse]_vars

(***************************************************************************)
(* The batches of records handed to generate_statistics.                   *)
(***************************************************************************)
\* longest batch of records that differ in one field
MaxBatch == 4
\* longest batch of records that differ in lens, aperture and focal length
MaxGroup == 3
\* most distinct shutter speeds of a batch
MaxWide == 12

Record(camera, lens, iso, speed, aperture, focal_length) ==
    [file_name |-> FileName, camera |-> camera, lens |-> lens, iso |-> iso,
     speed |-> speed, aperture |-> aperture, focal_length |-> focal_length]

\* 'A b', 'a b' and 'a  B' are variants of one lens, 'c' is another lens
LensNames == { <<"A", " ", "b">>, <<"a", " ", "b">>, <<"a", " ", " ", "B">>, <<"c">> }

LensRecords ==
    {Record(None, lens, None, None, None, None) :
        lens \in {None, Some(<<>>)} \cup {Some(name) : name \in LensNames}}

\* records with a lens, an aperture or a focal length; 'f/.' is an aperture
\* the parser produces from the value '.'
GroupRecords ==
    {Record(None, g[1], None, None, g[2], g[3]) :
        g \in { <<Some(<<"A", " ", "b">>), None, None>>,
                <<Some(<<"A", " ", "b">>), Some(<<"f/", "2", ".", "8">>), None>>,
                <<Some(<<"A", " ", "b">>), Some(<<"f/", "4", ".", "0">>), Some(<<"3", "5", "mm">>)>>,
                <<Some(<<"a", " ", "b">>), Some(<<"f/", "2", ".", "8">>), None>>,
                <<Some(<<"a", " ", "b">>), Some(<<"f/", "4", ".", "0">>), Some(<<"3", "5", "mm">>)>>,
                <<Some(<<"c">>), Some(<<"f/", "2", ".", "8">>), None>>,
                <<Some(<<"c">>), Some(<<"f/", ".">>), None>>,
                <<None, Some(<<"f/", "2", ".", "8">>), None>> }}

SpeedValues ==
    { <<"1", "/", "4">>, <<"2">>, <<"0", ".", "5">>,
      <<"1", "/", "0">>, <<"1", "/", "2", "/", "4">>, <<"x">>, <<"nan">> }

\* records with a camera or an ISO; the parser gives the camera '' for an empty
\* value and the ISO 0 for the value '0'
CameraRecords ==
    {Record(g[1], None, g[2], None, None, None) :
        g \in { <<Some(<<"A">>), Some(400)>>, <<Some(<<"B">>), Some(200)>>,
                <<Some(<<>>), Some(400)>>, <<Some(<<"A">>), None>>,
                <<None, Some(0)>> }}

SpeedRecord(speed) == Record(None, None, None, Some(speed), None, None)
SpeedRecords == {SpeedRecord(speed) : speed \in SpeedValues}

\* the shutter speed 1/k
WideSpeed(k) == <<"1", "/">> \o IntToDigits(k)

\* up to MaxWide records with distinct shutter speeds, then up to one more record
WideBatches ==
    {[j \in 1..n |-> SpeedRecord(WideSpeed(((j + r) % MaxWide) + 1))] \o tail :
        n \in 0..MaxWide, r \in 0..(MaxWide - 1), tail \in SeqsUpTo(SpeedRecords, 1)}

Batches ==
    SeqsUpTo(LensRecords, MaxBatch) \cup SeqsUpTo(SpeedRecords, MaxBatch)
      \cup SeqsUpTo(CameraRecords, MaxBatch)
      \cup SeqsUpTo(GroupRecords, MaxGroup) \cup WideBatches

(***************************************************************************)
(* generate_statistics and display_statistics as a state machine: a batch  *)
(* is aggregated, and then its tables are printed.                         *)
(***************************************************************************)
InitStats ==
    /\ lines = <<>>
    /\ i = 1
    /\ data = EmptyData
    /\ pc = "loaded"
    /\ results \in Batches
    /\ lens_canonical_map = <<>>
    /\ stats = EmptyStats(0)
    /\ shown = NothingShown
    /\ disk = NoDisk
    /\ args = NoArgs
    /\ raw_files = <<>>
    /\ workers = 0
    /\ file_no = 1
    /\ pool = <<>>

\* lines 297-377
GenerateStatistics ==
    /\ pc = "loaded"
    /\ LET canonical == LensCanonicalMap(LensVariations(results, Len(results)))
       IN  /\ lens_canonical_map' = canonical
           /\ stats' = CountRecords(results, Len(results), canonical)
    /\ pc' = "generated"
    /\ UNCHANGED <<lines, i, data, results, shown, load_vars>>

\* lines 380-534
DisplayStatistics ==
    /\ pc = "generated"
    /\ LET sections == Sections(stats)
           raising == Raising(sections)
       IN  /\ shown' = [cameras |-> PrintedBy(sections, 1),
                        lenses |-> PrintedBy(sections, 2),
                        apertures_by_lens |-> PrintedBy(sections, 3),
                        focal_lengths_by_lens |-> PrintedBy(sections, 4),
                        iso_values |-> PrintedBy(sections, 5),
                        shutter_speeds |-> PrintedBy(sections, 6),
                        apertures |-> PrintedBy(sections, 7),
                        focal_lengths |-> PrintedBy(sections, 8)]
           /\ pc' = IF raising = 0 THEN "displayed" ELSE sections[raising].raises
    /\ UNCHANGED <<lines, i, data, results, lens_canonical_map, stats, load_vars>>

NextStats == GenerateStatistics \/ DisplayStatistics

SpecStats == InitStats /\ [][NextStats]_vars

(***************************************************************************)
(* The batch run: main, load_raw_files and process_single_file.            *)
(***************************************************************************)
\* most paths the globs of load_raw_files yield, duplicates included
MaxFound == 3
\* most workers asked for, and most CPUs of the machine
MaxWorkers == 3

\* the RAW files a directory may hold, by the stem of their name:
\* 'B' < 'a' < 'ab' in the order of paths
Paths == { <<"B">>, <<"a">>, <<"a", "b">> }

\* lines 65-77: ExifTool's output, or the RuntimeError of a timeout, of a
\* failed run or of a missing ExifTool
Extracted(stdout) == [error |-> "", stdout |-> stdout]
ExtractFails == [error |-> "RuntimeError", stdout |-> <<>>]

ExifOutcomes ==
    { ExtractFails,
      Extracted(<<KV("Focal Length", <<".", " ", "mm">>)>>),
      Extracted(<<KV("Lens Model", <<"A">>), KV("Aperture", <<"4", ".", "0">>)>>) }

Range(s) == {s[k] : k \in 1..Len(s)}

\* a path that does not exist, a path that is not a directory, or a directory:
\* what its globs yield, and what ExifTool gives for each file
Disks ==
    { [kind |-> "missing", found |-> <<>>, exif |-> <<>>],
      [kind |-> "file", found |-> <<>>, exif |-> <<>>] }
      \cup UNION { {[kind |-> "dir", found |-> found, exif |-> exif] :
                        exif \in [Range(found) -> ExifOutcomes]} :
                   found \in SeqsUpTo(Paths, MaxFound) }

\* the arguments of main: --no-stats, and -j N or no -j
Args ==
    {[show_details |-> FALSE, show_stats |-> show_stats, num_workers |-> num_workers] :
        show_stats \in BOOLEAN,
        num_workers \in {None} \cup {Some(n) : n \in 0..MaxWorkers}}

\* a mutant of SortedPaths: the paths without duplicates, in the order found
FoundOrder(found) ==
    LET first == {k \in 1..Len(found) : \A j \in 1..(k - 1) : found[j] # found[k]}
    IN  List([k \in 1..Cardinality(first) |->
                found[CHOOSE a \in first : Cardinality({b \in first : b < a}) = k - 1]])

\* line 260: sorted(set(raw_files))
SortedPaths(found) ==
    List([k \in 1..Cardinality(Range(found)) |->
            CHOOSE path \in Range(found) :
                Cardinality({other \in Range(found) : StrLess(other, path)}) = k - 1])

RECURSIVE ParseLines(_, _, _)
\* parse_exif_output over the first n lines of a dump: the record, or None
\* when float() has raised at line 214
ParseLines(dump, n, file_name) ==
    IF n = 0 THEN Some([EmptyData EXCEPT !.file_name = file_name])
    ELSE LET before == ParseLines(dump, n - 1, file_name)
             key == dump[n].key
             value == dump[n].value
         IN  IF before = None \/ dump[n].text # "kv" THEN before
             ELSE IF FocalRaises(before[1].focal_length, key, value) THEN None
             ELSE Some([file_name |-> file_name,
                        camera |-> Camera(before[1].camera, key, value),
                        lens |-> Lens(before[1].lens, key, value),
                        iso |-> Iso(before[1].iso, key, value),
                        speed |-> Speed(before[1].speed, key, value),
                        aperture |-> Aperture(before[1].aperture, key, value),
                        focal_length |-> FocalLength(before[1].focal_length, key, value)])

\* lines 92-100: the record of a file, or None after any exception
process_single_file(raw_file, exif) ==
    IF exif[raw_file].error # "" THEN None
    ELSE ParseLines(exif[raw_file].stdout, Len(exif[raw_file].stdout), raw_file)

\* a mutant of FilterNone: the results up to the first None
UntilNone(rs) ==
    LET none == {k \in 1..Len(rs) : rs[k] = None}
    IN  List([k \in 1..(IF none = {} THEN Len(rs) ELSE Min(none) - 1) |-> rs[k][1]])

RECURSIVE FilterNone(_)
\* line 285: [r for r in results if r is not None]
FilterNone(rs) ==
    IF rs = <<>> THEN <<>>
    ELSE IF Head(rs) = None THEN FilterNone(Tail(rs))
    ELSE <<Head(rs)[1]>> \o FilterNone(Tail(rs))

\* a task of pool.map
Queued == [state |-> "queued", result |-> None]
Running == [state |-> "running", result |-> None]
Done(result) == [state |-> "done", result |-> result]

\* a mutant of NoData: main goes on whatever load_raw_files returned
NeverNoData(rs) == FALSE

\* line 599: not results
NoData(rs) == rs = <<>>

InitMain ==
    /\ lines = <<>>
    /\ i = 1
    /\ data = EmptyData
    /\ pc = "main"
    /\ results = <<>>
    /\ lens_canonical_map = <<>>
    /\ stats = EmptyStats(0)
    /\ shown = NothingShown
    /\ disk \in Disks
    /\ args \in Args
    /\ raw_files = <<>>
    /\ workers = 0
    /\ file_no = 1
    /\ pool = <<>>

\* lines 246-277 and 595-597: the directory is checked, the files are found
\* and the number of workers is determined
FindFiles ==
    /\ pc = "main"
    /\ IF disk.kind # "dir"
       THEN /\ pc' = "no directory"
            /\ UNCHANGED <<raw_files, workers, pool>>
       ELSE LET found == SortedPaths(disk.found)
            IN  /\ raw_files' = found
                /\ IF found = <<>>
                   THEN /\ pc' = "files loaded"
                        /\ UNCHANGED <<workers, pool>>
                   ELSE \E cpu_count \in 1..MaxWorkers :
                          LET asked == IF args.num_workers = None THEN cpu_count
                                       ELSE args.num_workers[1]
                              num_workers == Min({asked, Len(found)})
                          IN  /\ workers' = num_workers
                              /\ IF num_workers > 1 /\ Len(found) > 1
                                 THEN /\ pool' = [k \in 1..Len(found) |-> Queued]
                                      /\ pc' = "pool"
                                 ELSE /\ pool' = pool
                                      /\ pc' = "sequential"
    /\ UNCHANGED <<parse_vars, stats_vars, results, disk, args, file_no>>

\* lines 289-292: the sequential loop processes one file
ProcessNext ==
    /\ pc = "sequential"
    /\ file_no <= Len(raw_files)
    /\ LET result == process_single_file(raw_files[file_no], disk.exif)
       IN  results' = IF result # None THEN Append(results, result[1]) ELSE results
    /\ file_no' = file_no + 1
    /\ UNCHANGED <<parse_vars, stats_vars, pc, disk, args, raw_files, workers, pool>>

\* line 294, after the sequential loop
ReturnSequential ==
    /\ pc = "sequential"
    /\ file_no > Len(raw_files)
    /\ pc' = "files loaded"
    /\ UNCHANGED <<parse_vars, stats_vars, results, load_vars>>

\* line 283: an idle worker of the pool takes the next task of the queue
StartTask ==
    /\ pc = "pool"
    /\ Cardinality({k \in 1..Len(pool) : pool[k].state = "running"}) < workers
    /\ \E k \in 1..Len(pool) :
          /\ pool[k].state = "queued"
          /\ \A j \in 1..(k - 1) : pool[j].state # "queued"
          /\ pool' = [pool EXCEPT ![k] = Running]
    /\ UNCHANGED <<parse_vars, stats_vars, pc, results, disk, args, raw_files, workers, file_no>>

\* line 283: a worker ends its task, process_single_file of one file
FinishTask ==
    /\ pc = "pool"
    /\ \E k \in 1..Len(pool) :
          /\ pool[k].state = "running"
          /\ pool' = [pool EXCEPT ![k] = Done(process_single_file(raw_files[k], disk.exif))]
    /\ UNCHANGED <<parse_vars, stats_vars, pc, results, disk, args, raw_files, workers, file_no>>

\* lines 283-285 and 294: pool.map returns the results in the order of its
\* tasks, and the None results are left out
CollectResults ==
    /\ pc = "pool"
    /\ \A k \in 1..Len(pool) : pool[k].state = "done"
    /\ results' = FilterNone(List([k \in 1..Len(pool) |-> pool[k].result]))
    /\ pc' = "files loaded"
    /\ UNCHANGED <<parse_vars, stats_vars, load_vars>>

\* lines 599-610: main after load_raw_files
CheckResults ==
    /\ pc = "files loaded"
    /\ pc' = IF NoData(results) THEN "no data"
             ELSE IF args.show_stats THEN "loaded"
             ELSE "returned"
    /\ UNCHANGED <<parse_vars, stats_vars, results, load_vars>>

NextMain ==
    \/ FindFiles
    \/ ProcessNext
    \/ ReturnSequential
    \/ StartTask
    \/ FinishTask
    \/ CollectResults
    \/ CheckResults
    \/ GenerateStatistics
    \/ DisplayStatistics

SpecMain == InitMain /\ [][NextMain]_vars

(***************************************************************************)
(* What the claims about the parser speak of: the lines read so far.       *)
(***************************************************************************)
\* the number of lines the loop has read
Read == i - 1

\* the lines among the first n that carry one of these keys
KeyIdx(keys, n) == {k \in 1..n : lines[k].text = "kv" /\ lines[k].key \in keys}
\* and of those, the ones with a non-empty value
ValueIdx(keys, n) == {k \in KeyIdx(keys, n) : lines[k].value # <<>>}

\* the step about to be taken reads a line with one of these keys
Reading(keys) ==
    /\ pc = "scan"
    /\ i <= Len(lines)
    /\ lines[i].text = "kv"
    /\ lines[i].key \in keys

(***************************************************************************)
(* C1: parse_exif_output returns a record for every input text and never   *)
(* raises; a recognised key whose value is no valid number leaves the      *)
(* field unset and the record is still produced.                           *)
(***************************************************************************)
C1_NeverRaises == pc # "raised"

C3_FirstLowWins ==
    (pc # "raised" /\ KeyIdx(LensHighKeys, Read) = {})
        => data.lens =
              IF ValueIdx(LensLowKeys, Read) # {}
              THEN Some(lines[Min(ValueIdx(LensLowKeys, Read))].value)
              ELSE IF KeyIdx(LensLowKeys, Read) # {} THEN Some(<<>>) ELSE None

OnceFields == {"camera", "iso", "speed", "aperture", "focal_length"}

Truthy(f, x) == IF f = "iso" THEN TruthyInt(x) ELSE TruthyStr(x)

C4_AsStated ==
    [][\A f \in OnceFields : data[f] # None => data'[f] = data[f]]_vars

(***************************************************************************)
(* C4 amended: once a line has assigned one of these fields a non-empty    *)
(* value (a non-zero ISO, a non-empty string), no later line changes it.   *)
(***************************************************************************)
C4_SetOnce ==
    [][\A f \in OnceFields : Truthy(f, data[f]) => data'[f] = data[f]]_vars

\* a second line for a field that is set has been read, and the first value stands
C4_Witness ==
    /\ pc = "returned"
    /\ Len(lines) >= 2
    /\ lines[1] = KV("ISO", <<"4", "0", "0">>)
    /\ lines[2] = KV("ISO", <<"2", "0", "0">>)
    /\ data.iso = Some(400)

(***************************************************************************)
(* C5: in the returned record iso is absent or a positive integer,         *)
(* aperture is absent or 'f/' and a well-formed decimal number, and        *)
(* focal_length is absent or a well-formed decimal number and 'mm'.        *)
(***************************************************************************)
WellFormedNumber(s) ==
    /\ s # <<>>
    /\ \A k \in 1..Len(s) : s[k] \in Digits \cup {"."}
    /\ Cardinality({k \in 1..Len(s) : s[k] = "."}) <= 1
    /\ \E k \in 1..Len(s) : s[k] \in Digits

C5_RecordInvariant ==
    pc = "returned" =>
        /\ data.iso = None \/ data.iso[1] > 0
        /\ \/ data.aperture = None
           \/ /\ Len(data.aperture[1]) >= 2
              /\ Head(data.aperture[1]) = "f/"
              /\ WellFormedNumber(Tail(data.aperture[1]))
        /\ \/ data.focal_length = None
           \/ LET s == data.focal_length[1]
              IN  /\ Len(s) >= 2
                  /\ s[Len(s)] = "mm"
                  /\ WellFormedNumber(SubSeq(s, 1, Len(s) - 1))

(***************************************************************************)
(* C6 as stated: when the dump holds a 'Camera Model Name' line with a     *)
(* non-empty value, the returned camera is the value of the first such     *)
(* line, wherever the 'Camera Type 2' lines stand.                         *)
(***************************************************************************)
C6_AsStated ==
    (pc = "returned" /\ ValueIdx({"Camera Model Name"}, Len(lines)) # {})
        => data.camera = Some(lines[Min(ValueIdx({"Camera Model Name"}, Len(lines)))].value)

(***************************************************************************)
(* C6 amended: the returned camera is the value of the first line, in      *)
(* document order, whose key is 'Camera Model Name' or 'Camera Type 2' and *)
(* whose value is non-empty (the empty value when all such lines are       *)
(* empty, unset when there is none).                                       *)
(***************************************************************************)
CameraKeys == {"Camera Model Name", "Camera Type 2"}

C6_CameraFirstWins ==
    pc = "returned"
        => data.camera =
              IF ValueIdx(CameraKeys, Len(lines)) # {}
              THEN Some(lines[Min(ValueIdx(CameraKeys, Len(lines)))].value)
              ELSE IF KeyIdx(CameraKeys, Len(lines)) # {} THEN Some(<<>>) ELSE None

\* a 'Camera Type 2' line read before a 'Camera Model Name' line has won
C6_Witness ==
    /\ pc = "returned"
    /\ Len(lines) >= 2
    /\ lines[1] = KV("Camera Type 2", <<"B">>)
    /\ lines[2] = KV("Camera Model Name", <<"A">>)
    /\ data.camera = Some(<<"B">>)

(***************************************************************************)
(* C7: while iso is not set, an 'ISO' line sets it to the integer of the   *)
(* first run of digits of its value and leaves it alone when the value     *)
(* has no digit; a 'Camera ISO' line does the same unless its value        *)
(* contains 'Auto', and then leaves it alone.                              *)
(***************************************************************************)
HasDigit(value) == \E k \in 1..Len(value) : value[k] \in Digits

RECURSIVE Decimal(_, _, _)
\* the number written by the digits value[a..b]
Decimal(value, a, b) ==
    IF a > b THEN 0
    ELSE DigitVal(value[a]) * Pow10(b - a) + Decimal(value, a + 1, b)

FirstDigitRun(value) ==
    LET a == Min({k \in 1..Len(value) : value[k] \in Digits})
        b == Max({k \in a..Len(value) : \A m \in a..k : value[m] \in Digits})
    IN  Decimal(value, a, b)

ContainsAuto(value) == \E k \in 1..Len(value) : value[k] = "Auto"

C7_IsoExtraction ==
    [][(Reading({"ISO", "Camera ISO"}) /\ ~TruthyInt(data.iso))
          => LET value == lines[i].value
             IN  data'.iso =
                    IF lines[i].key = "Camera ISO" /\ ContainsAuto(value) THEN data.iso
                    ELSE IF HasDigit(value) THEN Some(FirstDigitRun(value))
                    ELSE data.iso]_vars

\* 'Camera ISO: Auto 400' has left iso unset and 'ISO: AUTO 400' has set it to 400
C7_Witness ==
    /\ pc = "returned"
    /\ Len(lines) >= 2
    /\ lines[1] = KV("Camera ISO", <<"Auto", " ", "4", "0", "0">>)
    /\ lines[2] = KV("ISO", <<"AUTO", " ", "4", "0", "0">>)
    /\ data.iso = Some(400)

(***************************************************************************)
(* What the claims about a batch speak of: the records that have a lens,   *)
(* the variants of a normalized key and their occurrences.                 *)
(***************************************************************************)
\* the records of the batch that have a lens
WithLens == {k \in 1..Len(results) : TruthyStr(results[k].lens)}

LensOf(k) == results[k].lens[1]

\* the normalized lens keys that occur in the batch
LensKeys == {normalize_lens_name(LensOf(k)) : k \in WithLens}

\* the records whose lens normalizes to this key
RecordsOf(key) == {k \in WithLens : normalize_lens_name(LensOf(k)) = key}

\* the original spellings of a key
Variants(key) == {LensOf(k) : k \in RecordsOf(key)}

Occurrences(variant) == Cardinality({k \in WithLens : LensOf(k) = variant})

FirstOccurrence(variant) == Min({k \in WithLens : LensOf(k) = variant})

\* the variant with the most occurrences, the earliest seen among equals
Majority(key) ==
    CHOOSE v \in Variants(key) :
        \A w \in Variants(key) :
            \/ Occurrences(w) < Occurrences(v)
            \/ Occurrences(w) = Occurrences(v) /\ FirstOccurrence(v) <= FirstOccurrence(w)

\* C8: once generate_statistics has run, lens_canonical_map has exactly the
\* normalized keys of the batch's lenses, the label of each key is the variant
\* with the highest occurrence count over the whole batch, the variant seen
\* first among those with the highest count, and the lens table is keyed by
\* these labels.
C8_MajorityRule ==
    pc # "loaded" =>
        /\ Keys(lens_canonical_map) = LensKeys
        /\ \A key \in LensKeys : Get(lens_canonical_map, key) = Majority(key)
        /\ Keys(stats.lenses) = {Majority(key) : key \in LensKeys}

\* C8 witness: the label of a key is not the variant of the key's first
\* record: a later record has decided it.
C8_Witness ==
    /\ pc = "generated"
    /\ \E key \in LensKeys :
          /\ Get(lens_canonical_map, key) = Majority(key)
          /\ Get(lens_canonical_map, key) # LensOf(Min(RecordsOf(key)))
          /\ Occurrences(Get(lens_canonical_map, key)) > Occurrences(LensOf(Min(RecordsOf(key))))

\* the labels of the per-lens tables
GroupedLenses == Keys(stats.apertures_by_lens) \cup Keys(stats.focal_lengths_by_lens)

\* the per-lens tables that were printed
LensTables == shown.apertures_by_lens \o shown.focal_lengths_by_lens

\* C9: the denominator of a per-lens table's percentages is the lens table's
\* count of the same label, which is the number of records whose lens
\* normalizes to the label's key; it is never zero (no division by zero is
\* raised), and the counts of one lens's breakdown sum to at most it.
C9_LensDenominator ==
    /\ pc # "ZeroDivisionError"
    /\ pc # "loaded" =>
          \A lens \in GroupedLenses :
              /\ Count(stats.lenses, lens) = Cardinality(RecordsOf(normalize_lens_name(lens)))
              /\ Count(stats.lenses, lens) > 0
              /\ Has(stats.apertures_by_lens, lens) =>
                    Total(Get(stats.apertures_by_lens, lens)) <= Count(stats.lenses, lens)
              /\ Has(stats.focal_lengths_by_lens, lens) =>
                    Total(Get(stats.focal_lengths_by_lens, lens)) <= Count(stats.lenses, lens)
    /\ \A t \in 1..Len(LensTables) :
          /\ LensTables[t].rows # <<>>
          /\ \A r \in 1..Len(LensTables[t].rows) :
                /\ LensTables[t].rows[r].denom = Count(stats.lenses, LensTables[t].lens)
                /\ LensTables[t].rows[r].count <= LensTables[t].rows[r].denom

\* C9 witness: a printed aperture table of a lens that has two spellings in
\* the batch, whose denominator is neither the batch total nor the number of
\* the lens's records with an aperture.
C9_Witness ==
    /\ pc = "displayed"
    /\ \E t \in 1..Len(shown.apertures_by_lens) :
          LET table == shown.apertures_by_lens[t]
          IN  /\ table.rows[1].denom = Count(stats.lenses, table.lens)
              /\ table.rows[1].denom < stats.total_photos
              /\ Total(Get(stats.apertures_by_lens, table.lens)) < table.rows[1].denom
              /\ \E k \in RecordsOf(normalize_lens_name(table.lens)) : LensOf(k) # table.lens

\* the exposure duration of a shutter speed: numerator / denominator for a
\* value with one '/', the number for a plain value, +inf for what is not
\* parsed
Duration(speed) == sort_speed(speed)

\* the durations a and b are in ascending order, where both are a number or +inf
Ascending(a, b) == (a.kind # "nan" /\ b.kind # "nan") => ~FloatLess(b, a)

\* the entry (label, count) is not ranked after the entry (label2, count2)
RankedBefore(label, count, label2, count2) ==
    \/ count > count2
    \/ count = count2 /\ Ascending(Duration(label), Duration(label2))

\* C10: the printed shutter-speed table is by descending count; entries with
\* equal counts are by ascending exposure duration, what is not parsed
\* counting as +inf; the table has the first 10 entries of that order, all of
\* them when there are fewer than 10.
C10_SpeedRanking ==
    pc = "displayed" =>
        LET rows == shown.shutter_speeds
            entries == stats.shutter_speeds
            labels == {rows[k].label : k \in 1..Len(rows)}
        IN  /\ Len(rows) = Min({TopN, Len(entries)})
            /\ \A k \in 1..Len(rows) :
                  /\ Has(entries, rows[k].label)
                  /\ rows[k].count = Get(entries, rows[k].label)
            /\ Cardinality(labels) = Len(rows)
            /\ \A a, b \in 1..Len(rows) :
                  a < b => RankedBefore(rows[a].label, rows[a].count,
                                        rows[b].label, rows[b].count)
            /\ \A k \in 1..Len(rows), e \in 1..Len(entries) :
                  entries[e][1] \notin labels =>
                      RankedBefore(rows[k].label, rows[k].count, entries[e][1], entries[e][2])

(***************************************************************************)
(* What the claims about a run of main speak of.                           *)
(***************************************************************************)
\* the file fails: its extraction or its parsing raises
Fails(path) == process_single_file(path, disk.exif) = None

\* the files of this part of raw_files that did not fail, in their order
RECURSIVE GoodFiles(_, _)
GoodFiles(paths, n) ==
    IF n = 0 THEN <<>>
    ELSE IF Fails(paths[n]) THEN GoodFiles(paths, n - 1)
    ELSE Append(GoodFiles(paths, n - 1), paths[n])

\* results has one record for each of these files, in their order
RecordsFor(paths) ==
    /\ Len(results) = Len(paths)
    /\ \A k \in 1..Len(paths) :
          /\ results[k].file_name = paths[k]
          /\ Some(results[k]) = process_single_file(paths[k], disk.exif)

\* load_raw_files has returned
FilesLoaded ==
    pc \in {"files loaded", "no data", "loaded", "returned", "generated", "displayed",
            "ValueError", "ZeroDivisionError"}

\* the pool is not stuck: a task is running and can end, or a task is queued
\* and a worker is idle, or every task is done and pool.map can return
PoolCanStep ==
    LET tasks(state) == {k \in 1..Len(pool) : pool[k].state = state}
    IN  \/ tasks("running") # {}
        \/ tasks("queued") # {} /\ Cardinality(tasks("running")) < workers
        \/ tasks("done") = 1..Len(pool)

\* C11: raw_files is the set of discovered paths in ascending order; while
\* the pool of load_raw_files runs it is never stuck, whatever files fail and
\* however many workers there are; the sequential loop has one record for each file
\* processed so far that did not fail; and once load_raw_files has returned,
\* sequential or pooled, results has exactly one record for each file that did
\* not fail, in the sorted order of the paths.
C11_FailureIsolation ==
    /\ pc \in {"sequential", "pool"} \/ FilesLoaded =>
          /\ Range(raw_files) = Range(disk.found)
          /\ \A a, b \in 1..Len(raw_files) : a < b => StrLess(raw_files[a], raw_files[b])
    /\ pc = "sequential" =>
          /\ RecordsFor(GoodFiles(raw_files, file_no - 1))
          /\ file_no \in 1..(Len(raw_files) + 1)
    /\ pc = "pool" =>
          /\ Len(pool) = Len(raw_files)
          /\ \A k \in 1..Len(pool) :
                pool[k].state = "done" =>
                    pool[k].result = process_single_file(raw_files[k], disk.exif)
          /\ PoolCanStep
    /\ FilesLoaded => RecordsFor(GoodFiles(raw_files, Len(raw_files)))

\* C11 witness: a pool of two or more workers has processed three files that
\* the globs did not yield in sorted order, the second of them failed, and
\* the records of the first and the third are returned in that order.
C11_Witness ==
    /\ pc = "files loaded"
    /\ workers >= 2
    /\ Len(pool) = 3
    /\ disk.found[1] # raw_files[1]
    /\ pool[2].result = None
    /\ Len(results) = 2
    /\ results[1].file_name = raw_files[1]
    /\ results[2].file_name = raw_files[3]

\* generate_statistics or display_statistics has been invoked
StatsInvoked == pc \in {"generated", "displayed", "ValueError", "ZeroDivisionError"}

\* in a run of main, 'no data' is reported only for an empty batch and with
\* the statistics untouched, the statistics are reached only with one record
\* or more, and no division by zero is raised
C12_NoDataState ==
    /\ pc = "no data" =>
          /\ results = <<>>
          /\ lens_canonical_map = <<>>
          /\ stats = EmptyStats(0)
          /\ shown = NothingShown
    /\ StatsInvoked =>
          /\ results # <<>>
          /\ stats.total_photos = Len(results)
          /\ stats.total_photos >= 1
    /\ pc # "ZeroDivisionError"

\* C12: when load_raw_files returns zero records (no file found, or every
\* file failed), the next step of main reports 'no data', and main takes no
\* step after that: generate_statistics and display_statistics are not
\* invoked.  So display_statistics is only reached with total_photos >= 1,
\* and no division by zero occurs in a run of main.
C12_EmptyBatch ==
    /\ []C12_NoDataState
    /\ [][/\ (pc = "files loaded" /\ results = <<>>) => pc' = "no data"
          /\ pc # "no data"]_vars

\* C12 witness: files were found, every one of them failed, statistics were
\* asked for, and main has reported 'no data'.
C12_Witness ==
    /\ pc = "no data"
    /\ args.show_stats
    /\ Len(raw_files) >= 2
    /\ \A k \in 1..Len(raw_files) : Fails(raw_files[k])
    /\ stats = EmptyStats(0)

\* the number of records of the batch whose field is a non-empty string
WithString(field) ==
    Cardinality({k \in 1..Len(results) :
                    results[k][field] # None /\ results[k][field] # Some(<<>>)})

\* the number of records of the batch that have an ISO
WithIso == Cardinality({k \in 1..Len(results) : results[k].iso # None})

\* the canonical labels of the lens mapping
CanonicalLabels == {lens_canonical_map[k][2] : k \in 1..Len(lens_canonical_map)}

\* the lens-keyed tables are keyed by canonical labels, one label per
\* normalized key, and the lens table counts every record with a lens
LensConservation ==
    /\ Keys(stats.lenses) \subseteq CanonicalLabels
    /\ Keys(stats.apertures_by_lens) \subseteq CanonicalLabels
    /\ Keys(stats.focal_lengths_by_lens) \subseteq CanonicalLabels
    /\ \A a, b \in 1..Len(lens_canonical_map) :
          a # b => /\ lens_canonical_map[a][1] # lens_canonical_map[b][1]
                   /\ lens_canonical_map[a][2] # lens_canonical_map[b][2]
    /\ Total(stats.lenses) = WithString("lens")

\* the tables of the string fields count every record with the field
StringConservation ==
    /\ Total(stats.cameras) = WithString("camera")
    /\ Total(stats.shutter_speeds) = WithString("speed")
    /\ Total(stats.apertures) = WithString("aperture")
    /\ Total(stats.focal_lengths) = WithString("focal_length")

\* C13: once generate_statistics has run, every key of the lens table and of
\* the two per-lens tables is a canonical label of the lens mapping, distinct
\* normalized keys have distinct labels, the lens table sums to the number of
\* records with a non-empty lens, and the camera, ISO, shutter-speed, aperture
\* and focal-length tables each sum to the number of records that have the
\* field.
C13_CountConservation ==
    pc # "loaded" =>
        /\ LensConservation
        /\ StringConservation
        /\ Total(stats.iso_values) = WithIso

====
